---- MODULE Spec2Model ----
(***************************************************************************)
(* Reminder polling loop (simple_email_reminder.py) over the deadline /    *)
(* notification store, together with the web-API handlers that write the   *)
(* rows the loop reads (deadline_routes.py, notification_settings_routes). *)
(* Time is counted in minutes: every duration of the source is a whole     *)
(* number of minutes (timedelta(hours=1) .. timedelta(days=30), the        *)
(* 5 minute window, time.sleep(300)).                                      *)
(***************************************************************************)
EXTENDS Integers, Sequences, FiniteSets, TLC

VARIABLES
    clock,      \* wall clock (utcnow), minutes
    settings,   \* notification_settings rows: user_id -> flags
    deadlines,  \* deadlines rows: id -> row
    reminders,  \* notification_reminders rows: id -> row
    nextDid,    \* serial of deadlines.id
    nextRid,    \* serial of notification_reminders.id
    bg,         \* BackgroundTasks: deadline ids waiting for schedule_email_reminders
    procs,      \* the running simple_email_reminder.py processes
    pc,         \* per process: position in main / check_and_send_reminders
    wake,       \* per process: clock at which time.sleep(300) returns
    started,    \* per process: clock when the current tick began
    ulist,      \* per process: `settings` rows still to iterate (user ids)
    dlist,      \* per process: `deadlines` response rows still to iterate
    rlist,      \* per process: `reminders` response rows still to iterate
    cur,        \* per process: [user, now, deadline_id, deadline_date] of the loops
    ev,         \* per process: what the last iteration of the reminder loop did: the
                \* reminder, its time_until, the decision, what the providers answered
                \* and the lines printed for it
    tick,       \* per process: bookkeeping of the current and the previous tick
    stat,       \* per reminder id: provider accepts / rejects, PATCHes applied, sent flips
    nreq,       \* web requests served so far
    svc,        \* a call of EnhancedNotificationService.send_deadline_reminder: its
                \* arguments, the state of the channels, and the results it returned
    req,        \* per request of GET /notifications: where get_notification_settings
                \* stands, the user e-mail it read, and its response
    rconf,      \* the rows of notification_reminders that hold the users' reminder
                \* preferences (user_id, reminder_time, channel flags), in the order of
                \* their ids
    post        \* per request of POST /reminders: where create_notification_reminder
                \* stands, its body, and its response

vars == <<clock, settings, deadlines, reminders, nextDid, nextRid, bg, procs,
          pc, wake, started, ulist, dlist, rlist, cur, ev, tick, stat, nreq, svc, req,
          rconf, post>>

store   == <<settings, deadlines, reminders, nextDid, nextRid, bg, nreq>>
locals  == <<ulist, dlist, rlist, cur>>

-----------------------------------------------------------------------------
(* Bounds of the model *)

MaxClock   == 12   \* no tick starts and no time passes after this minute
MaxTickDur == 1    \* minutes a tick may take on top of its sleep
MaxSlowTick == 6   \* the same, where the store or the provider answers slowly
MaxLongClock == 52 \* the last minute of a run that follows a deadline to its due time
MaxWebOps  == 1    \* requests the web API serves
MaxRequests == 3   \* requests of GET /notifications in flight together
MaxPosts   == 2    \* requests of POST /reminders in flight together

-----------------------------------------------------------------------------
(* Values *)

None    == <<>>
Some(x) == <<x>>

Abs(x) == IF x < 0 THEN -x ELSE x

Min(S) == CHOOSE x \in S : \A y \in S : x <= y

RECURSIVE SortedSeq(_)
SortedSeq(S) == IF S = {} THEN <<>> ELSE <<Min(S)>> \o SortedSeq(S \ {Min(S)})

\* datetime.timedelta, normalised to minutes
timedelta(weeks, days, hours, minutes) ==
    ((weeks * 7 + days) * 24 + hours) * 60 + minutes

UserIds  == {1, 2}
Workers  == {1, 2}
Channels == {"email", "sms", "whatsapp", "push"}

DEFAULT_USER_ID == 1

\* The users table: the rows that deadlines.user_id and notification_settings.user_id
\* refer to; no handler of the repository writes it
users == (1 :> [email |-> "one@example.com"]) @@ (2 :> [email |-> "two@example.com"])

SLEEP_SECONDS == 300

\* time.sleep(300), in minutes
SleepMinutes == SLEEP_SECONDS \div 60

-----------------------------------------------------------------------------
(* simple_email_reminder.py: the pure parts of check_and_send_reminders *)

\* time_map of check_and_send_reminders
time_map ==
    ("1_hour"  :> timedelta(0, 0, 1, 0)) @@
    ("1_day"   :> timedelta(0, 1, 0, 0)) @@
    ("1_week"  :> timedelta(1, 0, 0, 0)) @@
    ("2_weeks" :> timedelta(2, 0, 0, 0)) @@
    ("1_month" :> timedelta(0, 30, 0, 0))

\* time_before = time_map.get(reminder_type)
time_map_get(reminder_type) ==
    IF reminder_type \in DOMAIN time_map THEN Some(time_map[reminder_type]) ELSE None

\* Variants of the window test: one that leaves the boundary out, one that compares
\* the magnitude of time_until only, one with a window twice as wide
within_window_strict(time_until, time_before) ==
    Abs(time_until - time_before) < timedelta(0, 0, 0, 5)

within_window_magnitude(time_until, time_before) ==
    Abs(Abs(time_until) - time_before) <= timedelta(0, 0, 0, 5)

within_window_wide(time_until, time_before) ==
    Abs(time_until - time_before) <= timedelta(0, 0, 0, 10)

\* abs(time_until - time_before) <= timedelta(minutes=5)
within_window(time_until, time_before) ==
    Abs(time_until - time_before) <= timedelta(0, 0, 0, 5)

\* A loop that does not look at the sent flag it has read
skip_never(reminder) == FALSE

\* if reminder.get('sent'): continue
skip_if_sent(reminder) == reminder.sent

\* One iteration of `for reminder in reminders` up to the decision to send:
\* "skip_sent", "skip_type" and "not_due" are the three ways to pass on.
reminder_action(reminder, deadline_date, now) ==
    IF skip_if_sent(reminder) THEN "skip_sent"
    ELSE LET time_before == time_map_get(reminder.reminder_type) IN
         IF time_before = None THEN "skip_type"
         ELSE IF within_window(deadline_date - now, time_before[1]) THEN "send"
         ELSE "not_due"

\* send_email: True on status 200 / 202, False on any other status; an exception of
\* requests.post ("ConnectionError") is not caught here.
send_email(status) == status \in {"200", "202"}

\* What the providers of the enabled channels answer when asked ("-": not enabled, not
\* part of the case). The tick asks the e-mail provider only.
EnvAnswers(chans) ==
    {[email |-> e, sms |-> s] :
        e \in {"202", "500", "ConnectionError"},
        s \in IF "sms" \in chans THEN {"202", "500"} ELSE {"-"}}

\* The answers to requests.patch: the row update applied, the request refused with an
\* error status (no exception: the response is not looked at), the call raising.
PatchAnswers == {"applied", "refused", "ConnectionError"}

\* update_data = {"sent": True}: the one column the PATCH writes
update_data(row) == [row EXCEPT !.sent = TRUE]

\* A PATCH without its id filter: every row of the table
patch_all_reminders(rems, id) ==
    [r \in DOMAIN rems |-> update_data(rems[r])]

\* PATCH notification_reminders?id=eq.<id>: every row with that id, whatever its sent flag
patch_reminder(rems, id) ==
    [r \in DOMAIN rems |-> IF r = id THEN update_data(rems[r]) ELSE rems[r]]

\* GET notification_settings?select=* : the request without its filter
settings_query_all(tbl) ==
    LET ids == SortedSeq(DOMAIN tbl)
    IN [i \in 1..Len(ids) |->
           [user_id |-> ids[i], email_enabled |-> tbl[ids[i]].email_enabled,
            sms_enabled |-> tbl[ids[i]].sms_enabled,
            whatsapp_enabled |-> tbl[ids[i]].whatsapp_enabled,
            push_enabled |-> tbl[ids[i]].push_enabled]]

\* GET notification_settings?email_enabled=eq.true&select=*
settings_query(tbl) ==
    LET ids == SortedSeq({u \in DOMAIN tbl : tbl[u].email_enabled})
    IN [i \in 1..Len(ids) |->
           [user_id |-> ids[i], email_enabled |-> tbl[ids[i]].email_enabled,
            sms_enabled |-> tbl[ids[i]].sms_enabled,
            whatsapp_enabled |-> tbl[ids[i]].whatsapp_enabled,
            push_enabled |-> tbl[ids[i]].push_enabled]]

\* GET deadlines?user_id=eq.<user_id>&select=*
deadlines_query(tbl, user_id) ==
    LET ids == SortedSeq({d \in DOMAIN tbl : tbl[d].user_id = user_id})
    IN [i \in 1..Len(ids) |-> [id |-> ids[i], deadline_date |-> tbl[ids[i]].deadline_date]]

\* GET notification_reminders?deadline_id=eq.<deadline_id>&select=*
reminders_query(tbl, deadline_id) ==
    LET ids == SortedSeq({r \in DOMAIN tbl : tbl[r].deadline_id = deadline_id})
    IN [i \in 1..Len(ids) |->
           [id |-> ids[i], reminder_type |-> tbl[ids[i]].reminder_type,
            sent |-> tbl[ids[i]].sent]]

\* enhanced_notification_service.py, send_deadline_reminder: the results of the channels
\* asked, in the order email, sms, whatsapp, push. notification_types None stands for
\* [EMAIL]; sms and whatsapp need a user_phone; each send_*_notification catches every
\* exception and returns success False; send_push_notification always returns success.
NotificationType == {"email", "sms", "whatsapp", "push"}

Phones == {None, Some("+15550100")}

\* A send_deadline_reminder that gives up at the first channel that fails
send_deadline_reminder_stops(user_phone, notification_types, delivered) ==
    LET types == IF notification_types = None THEN {"email"} ELSE notification_types[1]
        order == <<"email", "sms", "whatsapp", "push">>
        asked(c) == c \in types /\ (c \in {"sms", "whatsapp"} => user_phone # None)
        stopped(i) == \E j \in 1..(i - 1) : asked(order[j]) /\ ~delivered[order[j]]
        result(i) == IF asked(order[i]) /\ ~stopped(i)
                     THEN <<[notification_type |-> order[i],
                             success |-> delivered[order[i]]]>>
                     ELSE <<>>
    IN result(1) \o result(2) \o result(3) \o result(4)

send_deadline_reminder(user_phone, notification_types, delivered) ==
    LET types == IF notification_types = None THEN {"email"} ELSE notification_types[1]
        result(c) == [notification_type |-> c, success |-> delivered[c]]
    IN (IF "email" \in types THEN <<result("email")>> ELSE <<>>) \o
       (IF "sms" \in types /\ user_phone # None THEN <<result("sms")>> ELSE <<>>) \o
       (IF "whatsapp" \in types /\ user_phone # None
           THEN <<result("whatsapp")>> ELSE <<>>) \o
       (IF "push" \in types
           THEN <<[notification_type |-> "push", success |-> TRUE]>> ELSE <<>>)

\* send_email_notification: success unless anything in its try block raises: no
\* SENDGRID_API_KEY (ValueError), sg.send refusing the key or the message
send_email_notification(sendgrid_api_key, accepted) == sendgrid_api_key /\ accepted

\* send_sms_notification, send_whatsapp_notification: success unless anything in the try
\* block raises: no twilio_client or no sender number ("... configuration incomplete"),
\* messages.create failing
send_sms_notification(twilio_client, sms_from, accepted) ==
    twilio_client /\ sms_from /\ accepted

send_whatsapp_notification(twilio_client, whatsapp_from, accepted) ==
    twilio_client /\ whatsapp_from /\ accepted

\* What each send_*_notification returns for a configuration of the service and the
\* answers of the providers
Delivered(config, accepted) ==
    [c \in NotificationType |->
        CASE c = "email"    -> send_email_notification(config.sendgrid_api_key, accepted[c])
          [] c = "sms"      -> send_sms_notification(config.twilio_client, config.sms_from,
                                                    accepted[c])
          [] c = "whatsapp" -> send_whatsapp_notification(config.twilio_client,
                                                         config.whatsapp_from, accepted[c])
          [] c = "push"     -> TRUE]

\* The configurations of the service: which credentials are present and valid
ServiceConfigs ==
    [sendgrid_api_key : BOOLEAN, twilio_client : BOOLEAN, sms_from : BOOLEAN,
     whatsapp_from : BOOLEAN]

\* The notification_types arguments: None, or a list of NotificationType
TypeArgs == {None} \cup {Some(S) : S \in SUBSET NotificationType}

\* The provider answers that matter: e-mail and SMS; WhatsApp goes through the same
\* Twilio account as SMS
ProviderAnswers ==
    {[c \in NotificationType |-> IF c = "email" THEN e ELSE t] : e, t \in BOOLEAN}

\* timedelta.days and timedelta.seconds of a duration of t seconds: days is the floor,
\* also for a negative duration, and 0 <= seconds < 86400
td_days(t) == t \div 86400
td_seconds(t) == t % 86400

Plural(n, unit) == IF n > 1 THEN unit \o "s" ELSE unit

\* lines 327-334: time_str from time_until = deadline_date - utcnow()
time_str(time_until) ==
    IF td_days(time_until) > 0
    THEN <<"in", td_days(time_until), Plural(td_days(time_until), "day")>>
    ELSE IF td_seconds(time_until) > 3600
         THEN LET hours == td_seconds(time_until) \div 3600
              IN <<"in", hours, Plural(hours, "hour")>>
         ELSE <<"soon">>

\* The priorities a call is made with
Priorities == {"low", "medium", "high", "urgent", "High"}

\* str.upper()
upper(priority) ==
    CASE priority = "low" -> "LOW"
      [] priority = "medium" -> "MEDIUM"
      [] priority \in {"high", "High"} -> "HIGH"
      [] priority = "urgent" -> "URGENT"

\* The deadline_url arguments: None, the empty string, a URL
Urls == {None, Some(""), Some("https://example.com/task")}

\* `if deadline_url`: None and the empty string are false
truthy(deadline_url) == deadline_url # None /\ deadline_url[1] # ""

\* What send_deadline_reminder renders for a channel: the e-mail bodies carry the link
\* when deadline_url is true, the SMS and WhatsApp texts carry none, the push
\* notification carries deadline_url as it was passed
message(c, time_until, priority, deadline_url) ==
    [notification_type |-> c, due |-> time_str(time_until), priority |-> upper(priority),
     link |-> CASE c = "email" -> IF truthy(deadline_url) THEN deadline_url ELSE None
                [] c = "push"  -> deadline_url
                [] OTHER       -> None]

\* The messages of a call, in the order of its results
messages(user_phone, notification_types, time_until, priority, deadline_url) ==
    LET types == IF notification_types = None THEN {"email"} ELSE notification_types[1]
        m(c) == <<message(c, time_until, priority, deadline_url)>>
    IN (IF "email" \in types THEN m("email") ELSE <<>>) \o
       (IF "sms" \in types /\ user_phone # None THEN m("sms") ELSE <<>>) \o
       (IF "whatsapp" \in types /\ user_phone # None THEN m("whatsapp") ELSE <<>>) \o
       (IF "push" \in types THEN m("push") ELSE <<>>)

NoCall == [called |-> FALSE, user_phone |-> None, notification_types |-> None,
           config |-> None, accepted |-> None, results |-> <<>>,
           time_until |-> 7200, priority |-> "medium", deadline_url |-> None,
           messages |-> <<>>]

\* The call: results = send_deadline_reminder(...)
SendDeadlineReminder ==
    /\ ~svc.called
    /\ svc.config # None
    /\ svc' = [svc EXCEPT
                 !.called = TRUE,
                 !.results = send_deadline_reminder(
                                svc.user_phone, svc.notification_types,
                                Delivered(svc.config[1], svc.accepted[1])),
                 !.messages = messages(svc.user_phone, svc.notification_types,
                                       svc.time_until, svc.priority, svc.deadline_url)]
    /\ UNCHANGED <<clock, store, procs, req, rconf, post, pc, wake, started, locals, ev, tick, stat>>

\* The channels a notification_settings row enables
EnabledChannels(row) ==
    {c \in Channels : \/ c = "email" /\ row.email_enabled
                      \/ c = "sms" /\ row.sms_enabled
                      \/ c = "whatsapp" /\ row.whatsapp_enabled
                      \/ c = "push" /\ row.push_enabled}

-----------------------------------------------------------------------------
(* simple_email_reminder.py: main and check_and_send_reminders, one action per
   request to the store *)

NoCur == [setting |-> None, now |-> 0, deadline_id |-> 0, deadline_date |-> None]
NoEv  == [rid |-> 0, user |-> 0, rtype |-> "", tu |-> 0, act |-> "", res |-> "",
          chans |-> {}, ans |-> None, outcomes |-> <<>>]
NoTick == [no |-> 0, tried |-> <<>>, failed |-> {}, prevFailed |-> {}, visited |-> {},
           early |-> {}, prevEarly |-> {}, sentAtStart |-> {}, last |-> "none",
           seen |-> None, ended |-> 0, completedAtStart |-> {}, prevLast |-> "none"]
NoStat == [accepted |-> 0, rejected |-> 0, patched |-> 0, flips |-> 0]

\* A timer of fixed rate: the next tick is due SleepMinutes after the start of this one
next_wake_fixed_rate(returned, tick_started) == tick_started + SleepMinutes

\* main: time.sleep(300) is called when check_and_send_reminders has returned
next_wake(returned, tick_started) == returned + SleepMinutes

\* A check_and_send_reminders without its except clause: the exception leaves main
ReturnOrRaise(w, how) ==
    /\ pc' = [pc EXCEPT ![w] = IF how = "done" THEN "sleep" ELSE "off"]
    /\ wake' = [wake EXCEPT ![w] = next_wake(clock, started[w])]
    /\ ulist' = [ulist EXCEPT ![w] = <<>>]
    /\ dlist' = [dlist EXCEPT ![w] = <<>>]
    /\ rlist' = [rlist EXCEPT ![w] = <<>>]
    /\ cur' = [cur EXCEPT ![w] = NoCur]

\* check_and_send_reminders returns (or its except clause has printed the error) and
\* main goes to time.sleep(300)
Return(w, how) ==
    /\ pc' = [pc EXCEPT ![w] = "sleep"]
    /\ wake' = [wake EXCEPT ![w] = next_wake(clock, started[w])]
    /\ ulist' = [ulist EXCEPT ![w] = <<>>]
    /\ dlist' = [dlist EXCEPT ![w] = <<>>]
    /\ rlist' = [rlist EXCEPT ![w] = <<>>]
    /\ cur' = [cur EXCEPT ![w] = NoCur]

\* main: the next call of check_and_send_reminders, once time.sleep has returned
TickStart(w) ==
    /\ w \in procs
    /\ pc[w] = "sleep"
    /\ clock >= wake[w]
    /\ pc' = [pc EXCEPT ![w] = "settings"]
    /\ started' = [started EXCEPT ![w] = clock]
    /\ tick' = [tick EXCEPT ![w] = [no |-> @.no + 1, tried |-> <<>>, failed |-> {},
                                    prevFailed |-> @.failed, visited |-> {},
                                    early |-> {}, prevEarly |-> @.early,
                                    sentAtStart |->
                                        {r \in DOMAIN reminders : reminders[r].sent},
                                    last |-> "running", seen |-> None,
                                    ended |-> @.ended, prevLast |-> @.last,
                                    completedAtStart |->
                                        {d \in DOMAIN deadlines :
                                            deadlines[d].status = "completed"}]]
    /\ ev' = [ev EXCEPT ![w] = NoEv]
    /\ UNCHANGED <<clock, store, procs, req, rconf, post, svc, wake, locals, stat>>

\* lines 69-78: the settings request; "No users with email enabled" returns
ReadSettings(w) ==
    /\ w \in procs
    /\ pc[w] = "settings"
    /\ LET rows == settings_query(settings) IN
       IF rows = <<>>
       THEN /\ Return(w, "done")
            /\ tick' = [tick EXCEPT ![w].seen = Some(settings), ![w].last = "done",
                                    ![w].ended = clock]
       ELSE /\ pc' = [pc EXCEPT ![w] = "user"]
            /\ ulist' = [ulist EXCEPT ![w] = rows]
            /\ tick' = [tick EXCEPT ![w].seen = Some(settings)]
            /\ UNCHANGED <<wake, dlist, rlist, cur>>
    /\ UNCHANGED <<clock, store, procs, req, rconf, post, svc, started, ev, stat>>

\* lines 80-98: the next `setting`, its deadlines and now = utcnow(); after the last
\* one "Done checking deadlines". Every settings row has its users row (foreign key),
\* so `if not user_data` never holds.
NextUser(w) ==
    /\ w \in procs
    /\ pc[w] = "user"
    /\ IF ulist[w] = <<>>
       THEN /\ Return(w, "done")
            /\ tick' = [tick EXCEPT ![w].last = "done", ![w].ended = clock]
       ELSE LET setting == Head(ulist[w]) IN
            /\ pc' = [pc EXCEPT ![w] = "deadline"]
            /\ ulist' = [ulist EXCEPT ![w] = Tail(@)]
            /\ dlist' = [dlist EXCEPT ![w] = deadlines_query(deadlines, setting.user_id)]
            /\ cur' = [cur EXCEPT ![w] = [NoCur EXCEPT !.setting = Some(setting),
                                                       !.now = clock]]
            /\ UNCHANGED <<wake, rlist, tick>>
    /\ UNCHANGED <<clock, store, procs, req, rconf, post, svc, started, ev, stat>>

\* lines 100-110: the next `deadline`: its deadline_date parsed, its reminders read.
\* A null deadline_date makes deadline['deadline_date'].replace raise AttributeError,
\* which the except clause of line 150 catches: the tick ends there.
NextDeadline(w) ==
    /\ w \in procs
    /\ pc[w] = "deadline"
    /\ IF dlist[w] = <<>>
       THEN /\ pc' = [pc EXCEPT ![w] = "user"]
            /\ UNCHANGED <<wake, locals, tick>>
       ELSE LET deadline == Head(dlist[w])
                rows == reminders_query(reminders, deadline.id) IN
            IF deadline.deadline_date = None
            THEN /\ Return(w, "error")
                 /\ tick' = [tick EXCEPT ![w].last = "error", ![w].ended = clock]
            ELSE /\ dlist' = [dlist EXCEPT ![w] = Tail(@)]
                 /\ rlist' = [rlist EXCEPT ![w] = rows]
                 /\ cur' = [cur EXCEPT ![w].deadline_id = deadline.id,
                                       ![w].deadline_date = deadline.deadline_date]
                 /\ pc' = [pc EXCEPT ![w] = IF rows = <<>> THEN "deadline" ELSE "reminder"]
                 /\ UNCHANGED <<wake, ulist, tick>>
    /\ UNCHANGED <<clock, store, procs, req, rconf, post, svc, started, ev, stat>>

\* A request to the store raising (or answering with something that is not the rows):
\* the except clause of line 150 prints the error and the tick ends.
StoreError(w) ==
    /\ w \in procs
    /\ \/ pc[w] = "settings"
       \/ pc[w] = "user" /\ ulist[w] # <<>>
       \/ pc[w] = "deadline" /\ dlist[w] # <<>>
    /\ Return(w, "store_error")
    /\ tick' = [tick EXCEPT ![w].last = "store_error", ![w].ended = clock,
                            ![w].seen = IF pc[w] = "settings" THEN None ELSE @]
    /\ UNCHANGED <<clock, store, procs, req, rconf, post, svc, started, ev, stat>>

\* lines 112-146: one iteration of `for reminder in reminders`. The e-mail provider is
\* asked only when reminder_action says "send"; the PATCH follows only a True of
\* send_email, and "Marked reminder ... as sent" is printed whatever the PATCH answered.
HandleReminder(w) ==
    /\ w \in procs
    /\ pc[w] = "reminder"
    /\ LET reminder == Head(rlist[w])
           rid      == reminder.id
           act      == reminder_action(reminder, cur[w].deadline_date[1], cur[w].now)
           base     == [NoEv EXCEPT !.rid = rid, !.user = cur[w].setting[1].user_id,
                                    !.rtype = reminder.reminder_type,
                                    !.tu = cur[w].deadline_date[1] - cur[w].now,
                                    !.act = act,
                                    !.chans = EnabledChannels(cur[w].setting[1])]
           GoOn     == /\ rlist' = [rlist EXCEPT ![w] = Tail(@)]
                       /\ pc' = [pc EXCEPT ![w] = IF Tail(rlist[w]) = <<>>
                                                  THEN "deadline" ELSE "reminder"]
                       /\ UNCHANGED <<wake, ulist, dlist, cur>>
       IN
       \/ /\ act # "send"
          /\ GoOn
          /\ ev' = [ev EXCEPT ![w] = [base EXCEPT !.res = act]]
          /\ tick' = [tick EXCEPT
                        ![w].visited = @ \cup {rid},
                        ![w].early = IF act = "not_due" /\ base.tu > time_map[base.rtype]
                                     THEN @ \cup {rid} ELSE @]
          /\ UNCHANGED <<reminders, stat>>
       \/ /\ act = "send"
          /\ \E ans \in EnvAnswers(base.chans) :
               LET asked == [base EXCEPT !.ans = Some(ans)] IN
               \/ \* requests.post raises: caught by the except clause of line 150
                  /\ ans.email = "ConnectionError"
                  /\ Return(w, "error")
                  /\ ev' = [ev EXCEPT ![w] = [asked EXCEPT !.res = "send_raised"]]
                  /\ tick' = [tick EXCEPT ![w].visited = @ \cup {rid},
                                          ![w].tried = Append(@, rid),
                                          ![w].last = "error",
                                          ![w].ended = clock]
                  /\ UNCHANGED <<reminders, stat>>
               \/ \* "Email failed": sent is False, nothing is written
                  /\ ans.email # "ConnectionError"
                  /\ ~send_email(ans.email)
                  /\ GoOn
                  /\ ev' = [ev EXCEPT ![w] =
                               [asked EXCEPT !.res = "failed",
                                             !.outcomes = <<[channel |-> "email",
                                                             ok |-> FALSE]>>]]
                  /\ tick' = [tick EXCEPT ![w].visited = @ \cup {rid},
                                          ![w].tried = Append(@, rid),
                                          ![w].failed = @ \cup {rid}]
                  /\ stat' = [stat EXCEPT ![rid].rejected = @ + 1]
                  /\ UNCHANGED reminders
               \/ \* "Email sent": the PATCH of lines 143-145
                  /\ send_email(ans.email)
                  /\ \E po \in PatchAnswers :
                       LET sentEv == [asked EXCEPT !.outcomes =
                                         <<[channel |-> "email", ok |-> TRUE]>>]
                           hit    == rid \in DOMAIN reminders
                       IN
                       /\ tick' = [tick EXCEPT
                                     ![w].visited = @ \cup {rid},
                                     ![w].tried = Append(@, rid),
                                     ![w].last = IF po = "ConnectionError"
                                                 THEN "store_error" ELSE @,
                                     ![w].ended = IF po = "ConnectionError"
                                                  THEN clock ELSE @]
                       /\ \/ /\ po = "applied"
                             /\ GoOn
                             /\ reminders' = patch_reminder(reminders, rid)
                             /\ ev' = [ev EXCEPT ![w] = [sentEv EXCEPT !.res = "marked"]]
                             /\ stat' = [stat EXCEPT
                                  ![rid].accepted = @ + 1,
                                  ![rid].patched = IF hit THEN @ + 1 ELSE @,
                                  ![rid].flips = IF hit /\ ~reminders[rid].sent
                                                 THEN @ + 1 ELSE @]
                          \/ /\ po = "refused"
                             /\ GoOn
                             /\ ev' = [ev EXCEPT ![w] = [sentEv EXCEPT !.res = "mark_lost"]]
                             /\ stat' = [stat EXCEPT ![rid].accepted = @ + 1]
                             /\ UNCHANGED reminders
                          \/ /\ po = "ConnectionError"
                             /\ Return(w, "store_error")
                             /\ ev' = [ev EXCEPT ![w] = [sentEv EXCEPT !.res = "mark_raised"]]
                             /\ stat' = [stat EXCEPT ![rid].accepted = @ + 1]
                             /\ UNCHANGED reminders
    /\ UNCHANGED <<clock, settings, deadlines, nextDid, nextRid, bg, nreq, procs, req, rconf, post, svc, started>>

\* A request that is never answered: requests.get, requests.post and requests.patch are
\* called without timeout=, so the call blocks and the process with it
Stall(w) ==
    /\ w \in procs
    /\ \/ pc[w] = "settings"
       \/ pc[w] = "user" /\ ulist[w] # <<>>
       \/ pc[w] = "deadline" /\ dlist[w] # <<>>
       \/ pc[w] = "reminder"
    /\ pc' = [pc EXCEPT ![w] = "stalled"]
    /\ UNCHANGED <<clock, store, procs, req, rconf, post, svc, wake, started, locals, ev,
                   tick, stat>>

\* Time passes, up to minute `until`. A sleeping process wakes when its sleep is over; a
\* tick takes at most `dur` minutes (no request of the loop has a timeout), which pass
\* between the iterations of the `settings` loop (before the first, where now = utcnow()
\* then sees them, or after one).
AdvanceWithin(dur, until) ==
    /\ clock < until
    /\ \A w \in procs : /\ pc[w] = "sleep" => clock < wake[w]
                        /\ pc[w] # "sleep" => /\ pc[w] = "user"
                                              /\ clock - started[w] < dur
    /\ clock' = clock + 1
    /\ UNCHANGED <<store, procs, req, rconf, post, svc, pc, wake, started, locals, ev, tick, stat>>

Advance == AdvanceWithin(MaxTickDur, MaxClock)

AdvanceSlow == AdvanceWithin(MaxSlowTick, MaxClock)

AdvanceLong == AdvanceWithin(MaxTickDur, MaxLongClock)

-----------------------------------------------------------------------------
(* deadline_routes.py and notification_settings_routes.py: the handlers that write
   the rows the loop reads *)

\* The reminder ids the serial can hand out within the bounds
InitRids == {1, 2, 3}
InitDids == {1, 2}
RidSpace == 1 .. (Cardinality(InitRids) + 2 * (MaxWebOps + 1))

\* reminder_types = ['1_hour', '1_day']
reminder_types == <<"1_hour", "1_day">>

\* create_deadline: the INSERT of lines 110-123 names due_date, not deadline_date, and
\* status 'pending'; the reminders are left to a background task.
create_deadline_row(due_date) ==
    [user_id |-> DEFAULT_USER_ID, deadline_date |-> None, due_date |-> due_date,
     status |-> "pending", title |-> "", description |-> "", priority |-> "medium"]

CreateDeadline(due) ==
    /\ nreq < MaxWebOps
    /\ deadlines' = (nextDid :> create_deadline_row(due)) @@ deadlines
    /\ nextDid' = nextDid + 1
    /\ bg' = bg \cup {nextDid}
    /\ nreq' = nreq + 1
    /\ UNCHANGED <<clock, settings, reminders, nextRid, procs, req, rconf, post, svc, pc, wake, started,
                   locals, ev, tick, stat>>

\* schedule_email_reminders: one row per entry of reminder_types, sent = false (sent_at
\* is not among the columns of the INSERT and has no default: NULL), in one
\* transaction; the INSERT fails on the foreign key when the deadline is gone, and the
\* except clause rolls back.
schedule_email_reminders(rems, deadline_id, first) ==
    [i \in first .. (first + Len(reminder_types) - 1) |->
        [deadline_id |-> deadline_id, reminder_type |-> reminder_types[i - first + 1],
         sent |-> FALSE, sent_at |-> None]] @@ rems

ScheduleReminders(d) ==
    /\ d \in bg
    /\ bg' = bg \ {d}
    /\ IF d \in DOMAIN deadlines
       THEN /\ reminders' = schedule_email_reminders(reminders, d, nextRid)
            /\ nextRid' = nextRid + Len(reminder_types)
       ELSE UNCHANGED <<reminders, nextRid>>
    /\ UNCHANGED <<clock, settings, deadlines, nextDid, nreq, procs, req, rconf, post, svc, pc, wake, started,
                   locals, ev, tick, stat>>

\* The due dates of the deadlines the model creates: more than a day ahead
CreateDues == {timedelta(0, 1, 2, 0)}

\* The request bodies of update_deadline that the model sends
UpdateBodies ==
    {("status" :> "completed"), ("due_date" :> timedelta(0, 0, 2, 0))}

\* update_deadline: SET <the fields of the body> WHERE id = .. AND user_id = ..
update_deadline_row(row, data) ==
    [row EXCEPT !.title = IF "title" \in DOMAIN data THEN data["title"] ELSE @,
                !.description = IF "description" \in DOMAIN data
                                THEN data["description"] ELSE @,
                !.due_date = IF "due_date" \in DOMAIN data THEN data["due_date"] ELSE @,
                !.priority = IF "priority" \in DOMAIN data THEN data["priority"] ELSE @,
                !.status = IF "status" \in DOMAIN data THEN data["status"] ELSE @]

\* Further request bodies of update_deadline: the other fields, and a deadline reopened
EditBodies ==
    {("title" :> "retitled"), ("description" :> "rewritten"), ("priority" :> "high"),
     ("status" :> "pending")}

\* An update_deadline that re-arms the reminders of a deadline whose due date it moves
update_deadline_rearms(rems, deadline_id, data) ==
    [r \in DOMAIN rems |->
        IF rems[r].deadline_id = deadline_id /\ "due_date" \in DOMAIN data
        THEN [rems[r] EXCEPT !.sent = FALSE] ELSE rems[r]]

\* update_deadline writes the deadlines table only
update_deadline_reminders(rems, deadline_id, data) == rems

UpdateDeadline(d, data) ==
    /\ nreq < MaxWebOps
    /\ d \in DOMAIN deadlines
    /\ deadlines[d].user_id = DEFAULT_USER_ID
    /\ deadlines' = [deadlines EXCEPT ![d] = update_deadline_row(@, data)]
    /\ reminders' = update_deadline_reminders(reminders, d, data)
    /\ nreq' = nreq + 1
    /\ UNCHANGED <<clock, settings, nextDid, nextRid, bg, procs, req, rconf, post, svc, pc, wake, started,
                   locals, ev, tick, stat>>

\* delete_deadline: DELETE FROM deadlines; notification_reminders.deadline_id is
\* declared ondelete="CASCADE"
delete_cascade(rems, deadline_id) ==
    [r \in {x \in DOMAIN rems : rems[x].deadline_id # deadline_id} |-> rems[r]]

DeleteDeadline(d) ==
    /\ nreq < MaxWebOps
    /\ d \in DOMAIN deadlines
    /\ deadlines[d].user_id = DEFAULT_USER_ID
    /\ deadlines' = [x \in DOMAIN deadlines \ {d} |-> deadlines[x]]
    /\ reminders' = delete_cascade(reminders, d)
    /\ nreq' = nreq + 1
    /\ UNCHANGED <<clock, settings, nextDid, nextRid, bg, procs, req, rconf, post, svc, pc, wake, started,
                   locals, ev, tick, stat>>

\* The request bodies of update_notification_settings that the model sends
SettingsBodies ==
    {("email_enabled" :> b) : b \in BOOLEAN} \cup {("sms_enabled" :> b) : b \in BOOLEAN}

\* update_notification_settings: SET <the fields of the body> WHERE user_id = ..
update_settings_row(row, data) ==
    [row EXCEPT
       !.email_enabled = IF "email_enabled" \in DOMAIN data THEN data["email_enabled"] ELSE @,
       !.sms_enabled = IF "sms_enabled" \in DOMAIN data THEN data["sms_enabled"] ELSE @]

UpdateSettings(data) ==
    /\ nreq < MaxWebOps
    /\ DEFAULT_USER_ID \in DOMAIN settings
    /\ settings' = [settings EXCEPT ![DEFAULT_USER_ID] = update_settings_row(@, data)]
    /\ nreq' = nreq + 1
    /\ UNCHANGED <<clock, deadlines, reminders, nextDid, nextRid, bg, procs, req, rconf, post, svc, pc, wake,
                   started, locals, ev, tick, stat>>

\* The requests of GET /notifications
Requests == 1..MaxRequests

NoRequest == [pc |-> "new", user_email |-> None, status |-> 0, row |-> None]

\* get_notification_settings: SELECT email FROM users WHERE id = :user_id, or the
\* placeholder address
user_email_of(tbl, user_id) ==
    IF user_id \in DOMAIN tbl THEN tbl[user_id].email ELSE "user@example.com"

\* The row of a user whose push notifications are off from the start
default_settings_row_push_off(user_email) ==
    [email |-> user_email, phone_number |-> None, whatsapp_number |-> None,
     email_enabled |-> TRUE, sms_enabled |-> FALSE, whatsapp_enabled |-> FALSE,
     push_enabled |-> FALSE]

\* get_notification_settings: INSERT INTO notification_settings .. VALUES (:user_id,
\* :email, NULL, NULL, true, false, false, true)
default_settings_row(user_email) ==
    [email |-> user_email, phone_number |-> None, whatsapp_number |-> None,
     email_enabled |-> TRUE, sms_enabled |-> FALSE, whatsapp_enabled |-> FALSE,
     push_enabled |-> TRUE]

\* get_notification_settings, up to the decision to insert: the SELECT of the user's
\* row, answered with 200 when there is one, and the SELECT of the user's e-mail
\* otherwise
GetSettingsSelect(q) ==
    /\ req[q].pc = "new"
    /\ IF DEFAULT_USER_ID \in DOMAIN settings
       THEN req' = [req EXCEPT ![q] = [@ EXCEPT !.pc = "reminders",
                                                !.row = Some(settings[DEFAULT_USER_ID])]]
       ELSE req' = [req EXCEPT ![q] = [@ EXCEPT !.pc = "insert",
                                   !.user_email = Some(user_email_of(users, DEFAULT_USER_ID))]]
    /\ UNCHANGED <<clock, store, procs, svc, rconf, post, pc, wake, started, locals, ev,
                   tick, stat>>

\* get_notification_settings, the INSERT and db.commit(): notification_settings.user_id
\* is declared unique, so the INSERT of a second row for the user raises, and the
\* handler's except turns every exception into a 500
GetSettingsInsert(q) ==
    /\ req[q].pc = "insert"
    /\ IF DEFAULT_USER_ID \in DOMAIN settings
       THEN /\ req' = [req EXCEPT ![q] = [@ EXCEPT !.pc = "done", !.status = 500]]
            /\ UNCHANGED settings
       ELSE LET row == default_settings_row(req[q].user_email[1])
            IN /\ settings' = (DEFAULT_USER_ID :> row) @@ settings
               /\ req' = [req EXCEPT ![q] = [@ EXCEPT !.pc = "reminders",
                                                       !.row = Some(row)]]
    /\ UNCHANGED <<clock, deadlines, reminders, nextDid, nextRid, bg, nreq, procs, svc,
                   rconf, post, pc, wake, started, locals, ev, tick, stat>>

\* SELECT .. FROM notification_reminders WHERE user_id = :user_id AND
\* reminder_time = :reminder_time
config_rows(rows, user_id, reminder_time) ==
    {i \in 1..Len(rows) : rows[i].user_id = user_id /\ rows[i].reminder_time = reminder_time}

\* The lead-time classes a user has preferences for
configured(rows, user_id) ==
    {rows[i].reminder_time : i \in {j \in 1..Len(rows) : rows[j].user_id = user_id}}

\* get_notification_settings: VALUES (:user_id, '1_day', true, false, false, true)
default_reminder_row(user_id) ==
    [user_id |-> user_id, reminder_time |-> "1_day", email_enabled |-> TRUE,
     sms_enabled |-> FALSE, whatsapp_enabled |-> FALSE, push_enabled |-> TRUE]

\* get_notification_settings, lines 68-92: the SELECT of the user's reminder
\* preferences, answered with 200 when there are any
GetSettingsReminders(q) ==
    /\ req[q].pc = "reminders"
    /\ req' = [req EXCEPT ![q] =
                 IF configured(rconf, DEFAULT_USER_ID) # {}
                 THEN [@ EXCEPT !.pc = "done", !.status = 200]
                 ELSE [@ EXCEPT !.pc = "default"]]
    /\ UNCHANGED <<clock, store, procs, svc, rconf, post, pc, wake, started, locals, ev,
                   tick, stat>>

\* get_notification_settings, lines 94-116: the INSERT of the default preference
GetSettingsDefault(q) ==
    /\ req[q].pc = "default"
    /\ rconf' = Append(rconf, default_reminder_row(DEFAULT_USER_ID))
    /\ req' = [req EXCEPT ![q] = [@ EXCEPT !.pc = "done", !.status = 200]]
    /\ UNCHANGED <<clock, store, procs, svc, post, pc, wake, started, locals, ev, tick,
                   stat>>

\* The requests of POST /reminders
Posts == 1..MaxPosts

NoPost == [pc |-> "new", data |-> None, status |-> 0]

\* reminder_data.get(key, default)
get(data, key, default) == IF key \in DOMAIN data THEN data[key] ELSE default

\* The request bodies of create_notification_reminder that the model sends
ConfigBodies ==
    {("reminder_time" :> t) : t \in {"1_day", "1_week"}} \cup
    {("reminder_time" :> t) @@ ("email_enabled" :> FALSE) @@ ("sms_enabled" :> TRUE) :
        t \in {"1_day", "1_week"}}

\* The parameters create_notification_reminder binds to either statement
config_params(data) ==
    [user_id |-> DEFAULT_USER_ID, reminder_time |-> data["reminder_time"],
     email_enabled |-> get(data, "email_enabled", TRUE),
     sms_enabled |-> get(data, "sms_enabled", FALSE),
     whatsapp_enabled |-> get(data, "whatsapp_enabled", FALSE),
     push_enabled |-> get(data, "push_enabled", TRUE)]

\* INSERT INTO notification_reminders (user_id, reminder_time, ..) VALUES (..)
insert_config(rows, params) == Append(rows, params)

\* UPDATE notification_reminders SET <the four flags> WHERE user_id = :user_id AND
\* reminder_time = :reminder_time
update_config(rows, params) ==
    [i \in 1..Len(rows) |->
        IF i \in config_rows(rows, params.user_id, params.reminder_time)
        THEN params ELSE rows[i]]

\* create_notification_reminder, lines 208-217: the SELECT that decides between UPDATE
\* and INSERT
PostReminderCheck(p, data) ==
    /\ post[p].pc = "new"
    /\ post' = [post EXCEPT ![p] =
                  [@ EXCEPT !.data = Some(data),
                            !.pc = IF config_rows(rconf, DEFAULT_USER_ID,
                                                  data["reminder_time"]) # {}
                                   THEN "update" ELSE "insert"]]
    /\ UNCHANGED <<clock, store, procs, svc, req, rconf, pc, wake, started, locals, ev,
                   tick, stat>>

\* create_notification_reminder, lines 219-262: the statement chosen, db.commit(), and
\* the response built from result.first(): an UPDATE that matched no row has committed
\* when row[0] raises, and the except clause answers 500
PostReminderWrite(p) ==
    /\ post[p].pc \in {"update", "insert"}
    /\ LET params == config_params(post[p].data[1])
           hit == config_rows(rconf, params.user_id, params.reminder_time) # {}
       IN IF post[p].pc = "update"
          THEN /\ rconf' = update_config(rconf, params)
               /\ post' = [post EXCEPT ![p] = [@ EXCEPT !.pc = "done",
                                                  !.status = IF hit THEN 200 ELSE 500]]
          ELSE /\ rconf' = insert_config(rconf, params)
               /\ post' = [post EXCEPT ![p] = [@ EXCEPT !.pc = "done", !.status = 200]]
    /\ UNCHANGED <<clock, store, procs, svc, req, pc, wake, started, locals, ev, tick,
                   stat>>

\* delete_notification_reminder: DELETE .. WHERE user_id = :user_id AND
\* reminder_time = :reminder_time
delete_config(rows, user_id, reminder_time) ==
    SelectSeq(rows, LAMBDA r : ~(r.user_id = user_id /\ r.reminder_time = reminder_time))

DeleteReminderConfig(reminder_time) ==
    /\ nreq < MaxWebOps
    /\ rconf' = delete_config(rconf, DEFAULT_USER_ID, reminder_time)
    /\ nreq' = nreq + 1
    /\ UNCHANGED <<clock, settings, deadlines, reminders, nextDid, nextRid, bg, procs, svc,
                   req, post, pc, wake, started, locals, ev, tick, stat>>

-----------------------------------------------------------------------------
(* Specifications *)

Catalog == DOMAIN time_map

\* The deadline times of the stored deadline: around the lead point of its class at the
\* first tick (5 and 6 minutes before and after it), and as far in the past as the lead.
WindowTargets ==
    [c \in Catalog |-> {time_map[c] + d : d \in {-6, -5, 5, 6}} \cup {-time_map[c]}]

\* The lead point 5 minutes behind or 5 minutes ahead at the first tick
EdgeTargets == [c \in Catalog |-> {time_map[c] + d : d \in {-5, 5}}]

\* The processes P asleep before their first tick, nothing served yet
InitIdle(P) ==
    /\ clock = 0
    /\ nextDid = Cardinality(InitDids) + 1
    /\ nextRid = Cardinality(InitRids) + 1
    /\ bg = {}
    /\ nreq = 0
    /\ procs = P
    /\ pc = [w \in Workers |-> IF w \in P THEN "sleep" ELSE "off"]
    /\ wake = [w \in Workers |-> 0]
    /\ started = [w \in Workers |-> 0]
    /\ ulist = [w \in Workers |-> <<>>]
    /\ dlist = [w \in Workers |-> <<>>]
    /\ rlist = [w \in Workers |-> <<>>]
    /\ cur = [w \in Workers |-> NoCur]
    /\ ev = [w \in Workers |-> NoEv]
    /\ tick = [w \in Workers |-> NoTick]
    /\ stat = [r \in RidSpace |-> NoStat]
    /\ req = [q \in Requests |-> NoRequest]
    /\ post = [p \in Posts |-> NoPost]

\* A store as the loop can find it: user 1 with a settings row and one deadline with a
\* reminder of class c, due at one of targets[c], and, with `extra`, a reminder of a type
\* outside the catalog;
\* with `two`, user 2 with e-mail enabled and a deadline whose 1_hour reminder is due.
InitWith(P, classes, targets, ems, smss, extras, twos) ==
    /\ InitIdle(P)
    /\ rconf = <<default_reminder_row(DEFAULT_USER_ID)>>
    /\ \E c \in classes, em \in ems, sm \in smss, extra \in extras, two \in twos :
         \E t \in targets[c] :
           LET d1 == 1 :> [user_id |-> 1, deadline_date |-> Some(t), due_date |-> t,
                           status |-> "pending", title |-> "report",
                           description |-> "", priority |-> "medium"]
               d2 == 2 :> [user_id |-> 2,
                           deadline_date |-> Some(time_map["1_hour"] + 5),
                           due_date |-> time_map["1_hour"] + 5, status |-> "pending",
                           title |-> "review", description |-> "",
                           priority |-> "medium"]
               r1 == 1 :> [deadline_id |-> 1, reminder_type |-> c, sent |-> FALSE,
                           sent_at |-> None]
               r2 == 2 :> [deadline_id |-> 1, reminder_type |-> "3_days", sent |-> FALSE,
                           sent_at |-> None]
               r3 == 3 :> [deadline_id |-> 2, reminder_type |-> "1_hour", sent |-> FALSE,
                           sent_at |-> None]
               s1 == 1 :> [email |-> users[1].email, phone_number |-> None,
                           whatsapp_number |-> None, email_enabled |-> em,
                           sms_enabled |-> sm, whatsapp_enabled |-> FALSE,
                           push_enabled |-> FALSE]
               s2 == 2 :> [email |-> users[2].email, phone_number |-> None,
                           whatsapp_number |-> None, email_enabled |-> TRUE,
                           sms_enabled |-> FALSE, whatsapp_enabled |-> FALSE,
                           push_enabled |-> TRUE]
           IN /\ settings = IF two THEN s1 @@ s2 ELSE s1
              /\ deadlines = IF two THEN d1 @@ d2 ELSE d1
              /\ reminders = (IF extra THEN r1 @@ r2 ELSE r1) @@ (IF two THEN r3 ELSE <<>>)

\* The loop alone
NextLoop ==
    \/ \E w \in Workers : TickStart(w)
    \/ \E w \in Workers : ReadSettings(w)
    \/ \E w \in Workers : NextUser(w)
    \/ \E w \in Workers : NextDeadline(w)
    \/ \E w \in Workers : HandleReminder(w)
    \/ \E w \in Workers : StoreError(w)
    \/ Advance

\* The web API
NextWeb ==
    \/ \E due \in CreateDues : CreateDeadline(due)
    \/ \E d \in bg : ScheduleReminders(d)
    \/ \E d \in DOMAIN deadlines, data \in UpdateBodies : UpdateDeadline(d, data)
    \/ \E d \in DOMAIN deadlines : DeleteDeadline(d)
    \/ \E data \in SettingsBodies : UpdateSettings(data)

Next == NextLoop \/ NextWeb

\* One polling process beside the web API, the stored deadline's reminder of class 1_hour
Init == InitWith({1}, {"1_hour"}, EdgeTargets, BOOLEAN, BOOLEAN, {TRUE}, {FALSE}) /\ svc = NoCall

Spec == Init /\ [][Next]_vars

\* One polling process and a store nobody else writes, over every class of the catalog
InitWindow == InitWith({1}, Catalog, WindowTargets, {TRUE}, {FALSE}, {FALSE}, BOOLEAN) /\ svc = NoCall

SpecWindow == InitWindow /\ [][NextLoop]_vars

\* Two polling processes started together
InitConc == InitWith(Workers, {"1_hour"}, EdgeTargets, {TRUE}, {FALSE}, {FALSE}, {FALSE}) /\ svc = NoCall

SpecConc == InitConc /\ [][NextLoop]_vars

\* Deadline times whose lead point is 6, 7 or 11 minutes after the first tick
SlowTargets == [c \in Catalog |-> {time_map[c] + d : d \in {6, 7, 11}}]

\* One polling process whose ticks may take up to MaxSlowTick minutes
NextSlow ==
    \/ \E w \in Workers : TickStart(w)
    \/ \E w \in Workers : ReadSettings(w)
    \/ \E w \in Workers : NextUser(w)
    \/ \E w \in Workers : NextDeadline(w)
    \/ \E w \in Workers : HandleReminder(w)
    \/ \E w \in Workers : StoreError(w)
    \/ AdvanceSlow

InitSlow == InitWith({1}, {"1_hour"}, SlowTargets, {TRUE}, {FALSE}, {FALSE}, {FALSE}) /\ svc = NoCall

SpecSlow == InitSlow /\ [][NextSlow]_vars

\* A deadline 50 minutes after the first tick: the lead point of its 1_hour reminder
\* was 10 minutes before
LateTargets == [c \in Catalog |-> {time_map[c] - 10}]

\* One polling process followed until the deadline time has passed
NextLong ==
    \/ \E w \in Workers : TickStart(w)
    \/ \E w \in Workers : ReadSettings(w)
    \/ \E w \in Workers : NextUser(w)
    \/ \E w \in Workers : NextDeadline(w)
    \/ \E w \in Workers : HandleReminder(w)
    \/ \E w \in Workers : StoreError(w)
    \/ AdvanceLong

InitLong == InitWith({1}, {"1_hour"}, LateTargets, {TRUE}, {FALSE}, {FALSE}, {FALSE}) /\ svc = NoCall

SpecLong == InitLong /\ [][NextLong]_vars

\* One polling process that keeps running, with a store and a provider that may raise
\* or never answer, and deadlines created through the API
NextLive ==
    \/ NextLoop
    \/ \E w \in Workers : Stall(w)
    \/ \E due \in CreateDues : CreateDeadline(due)
    \/ \E d \in bg : ScheduleReminders(d)

InitLive ==
    InitWith({1}, {"1_hour"}, EdgeTargets, {TRUE}, {FALSE}, {FALSE}, {FALSE}) /\ svc = NoCall

\* main keeps executing and time keeps passing
SpecLive == InitLive /\ [][NextLive]_vars /\ WF_vars(NextLoop)

\* The loop with a store that answers every request
NextQuiet ==
    \/ \E w \in Workers : TickStart(w)
    \/ \E w \in Workers : ReadSettings(w)
    \/ \E w \in Workers : NextUser(w)
    \/ \E w \in Workers : NextDeadline(w)
    \/ \E w \in Workers : HandleReminder(w)
    \/ Advance

\* Due dates one day and 10 minutes after the start: the lead point of the 1_day
\* reminder is at minute 10
SoonDues == {timedelta(0, 1, 0, 10)}

\* One polling process, a store that answers, and deadlines created through the API
NextCreate ==
    \/ NextQuiet
    \/ \E due \in SoonDues : CreateDeadline(due)
    \/ \E d \in bg : ScheduleReminders(d)

\* User 1 with e-mail enabled and a deadline whose reminder is not due within the horizon
InitCreate ==
    InitWith({1}, {"1_hour"}, LateTargets, {TRUE}, BOOLEAN, BOOLEAN, {FALSE}) /\ svc = NoCall

\* main keeps executing, time keeps passing, and the background task of a created
\* deadline runs
SpecCreate ==
    /\ InitCreate /\ [][NextCreate]_vars
    /\ WF_vars(NextQuiet) /\ WF_vars(\E d \in bg : ScheduleReminders(d))

\* The notification service called once, for every argument, configuration and provider
\* behaviour; the polling loop is not running
NextService == SendDeadlineReminder

InitService ==
    /\ InitWith({}, {"1_hour"}, EdgeTargets, {TRUE}, {FALSE}, {FALSE}, {FALSE})
    /\ \E user_phone \in Phones, types \in TypeArgs, config \in ServiceConfigs,
          accepted \in ProviderAnswers :
          svc = [NoCall EXCEPT !.user_phone = user_phone, !.notification_types = types,
                               !.config = Some(config), !.accepted = Some(accepted)]

SpecService == InitService /\ [][NextService]_vars

\* The seconds between utcnow() and deadline_date: around now, one hour, two hours, one
\* day and two days, on both sides of now
RenderTimes ==
    {-172800, -86401, -86400, -7200, -3600, -1, 0, 1, 3599, 3600, 3601, 7199, 7200,
     86399, 86400, 86401, 172799, 172800, 259200}

\* A call on a service with every credential, for a deadline at any of RenderTimes
InitRender ==
    /\ InitWith({}, {"1_hour"}, EdgeTargets, {TRUE}, {FALSE}, {FALSE}, {FALSE})
    /\ \E t \in RenderTimes, priority \in Priorities, url \in Urls,
          types \in {None, Some(NotificationType)} :
          svc = [NoCall EXCEPT !.user_phone = Some("+15550100"),
                               !.notification_types = types,
                               !.config = Some([sendgrid_api_key |-> TRUE,
                                                twilio_client |-> TRUE, sms_from |-> TRUE,
                                                whatsapp_from |-> TRUE]),
                               !.accepted = Some([c \in NotificationType |-> TRUE]),
                               !.time_until = t, !.priority = priority,
                               !.deadline_url = url]

SpecRender == InitRender /\ [][NextService]_vars

\* The settings API alone: requests of GET /notifications served side by side, and
\* PUT /notifications
NextSettings ==
    \/ \E q \in Requests : GetSettingsSelect(q)
    \/ \E q \in Requests : GetSettingsInsert(q)
    \/ \E q \in Requests : GetSettingsReminders(q)
    \/ \E q \in Requests : GetSettingsDefault(q)
    \/ \E data \in SettingsBodies : UpdateSettings(data)

\* A store where user 1 has no settings row yet, or has the row of a user who changed it
InitSettings ==
    /\ InitIdle({})
    /\ svc = NoCall
    /\ deadlines = <<>>
    /\ reminders = <<>>
    /\ rconf \in {<<>>, <<default_reminder_row(2)>>}
    /\ \E fresh \in BOOLEAN, two \in BOOLEAN :
         LET s1 == IF fresh THEN <<>>
                   ELSE 1 :> [default_settings_row(users[1].email)
                                EXCEPT !.push_enabled = FALSE]
             s2 == IF two THEN 2 :> default_settings_row(users[2].email) ELSE <<>>
         IN settings = s1 @@ s2

SpecSettings == InitSettings /\ [][NextSettings]_vars

\* The web API alone: the deadline routes, PUT /notifications, and the reminder
\* preferences, with requests of POST /reminders served side by side
NextApi ==
    \/ NextWeb
    \/ \E d \in DOMAIN deadlines, data \in EditBodies : UpdateDeadline(d, data)
    \/ \E p \in Posts, data \in ConfigBodies : PostReminderCheck(p, data)
    \/ \E p \in Posts : PostReminderWrite(p)
    \/ \E t \in {"1_day", "1_week"} : DeleteReminderConfig(t)

\* A store with user 1's settings row, a deadline that is pending or was completed, its
\* 1_hour reminder, and user 1's reminder preferences: none, the default, or 1_week
InitApi ==
    /\ InitIdle({})
    /\ svc = NoCall
    /\ settings = (1 :> default_settings_row(users[1].email))
    /\ \E status \in {"pending", "completed"} :
          deadlines = (1 :> [user_id |-> 1, deadline_date |-> Some(timedelta(0, 0, 3, 0)),
                             due_date |-> timedelta(0, 0, 3, 0), status |-> status,
                             title |-> "report", description |-> "",
                             priority |-> "medium"])
    /\ reminders = (1 :> [deadline_id |-> 1, reminder_type |-> "1_hour", sent |-> FALSE,
                          sent_at |-> None])
    /\ rconf \in {<<>>, <<default_reminder_row(1)>>,
                   <<[default_reminder_row(1) EXCEPT !.reminder_time = "1_week"]>>}

SpecApi == InitApi /\ [][NextApi]_vars

-----------------------------------------------------------------------------
(* Properties *)

\* The results of an iteration that asked a provider
Dispatched == {"marked", "mark_lost", "mark_raised", "failed", "send_raised"}

\* The elements of a sequence
Range(q) == {q[i] : i \in 1..Len(q)}

\* The lead-time catalog of the specification, in minutes
LeadMinutes ==
    ("1_hour"  :> 60) @@ ("1_day" :> 24 * 60) @@ ("1_week" :> 7 * 24 * 60) @@
    ("2_weeks" :> 14 * 24 * 60) @@ ("1_month" :> 30 * 24 * 60)

ToleranceMinutes == 5

\* C1: over any sequence of ticks, a write that fails or is lost included, the provider
\* accepts the message of a reminder instance at most once.
C1_AtMostOneSend ==
    \A r \in RidSpace : stat[r].accepted <= 1

\* C2: the sent flag of a reminder instance goes from false to true at most once, and no
\* step of a tick or of the web API sets a true flag back to false.
C2_SentOnce ==
    /\ [](\A r \in RidSpace : stat[r].flips <= 1)
    /\ [][\A r \in DOMAIN reminders :
             /\ reminders[r].sent /\ r \in DOMAIN reminders' => reminders'[r].sent
             /\ ~reminders[r].sent /\ r \in DOMAIN reminders' /\ reminders'[r].sent
                   => stat'[r].flips = stat[r].flips + 1]_vars

\* A sent instance that a later tick passed over after the web API served a request
C2_Witness ==
    \E r \in DOMAIN reminders :
        /\ reminders[r].sent /\ stat[r].flips = 1
        /\ nreq > 0
        /\ tick[1].no >= 2 /\ ev[1].rid = r /\ ev[1].res = "skip_sent"

\* C3: of two mark-sent writes on the same instance exactly one marks it; the other
\* finds it sent already and changes nothing.
C3_MarkOnce ==
    \A r \in RidSpace : stat[r].patched <= 1

\* C4: an instance is marked only after a dispatch of the same tick succeeded; one whose
\* dispatch failed stays unsent, is not tried again in that tick, and is tried again by
\* the next tick (here: a tick that ran to its end and came to the instance).
C4_MarkedAfterSuccessAndRetried ==
    \A w \in procs :
        /\ ev[w].res = "marked" => ev[w].outcomes # <<>> /\ ev[w].outcomes[1].ok
        /\ ev[w].res = "failed" /\ ev[w].rid \in DOMAIN reminders =>
              ~reminders[ev[w].rid].sent
        /\ \A i, j \in 1..Len(tick[w].tried) :
              tick[w].tried[i] = tick[w].tried[j] => i = j
        /\ pc[w] = "sleep" /\ tick[w].last = "done" =>
              \A r \in tick[w].prevFailed \cap tick[w].visited :
                  r \in Range(tick[w].tried)

\* C5: once an instance is marked sent, no tick asks a provider for it again, also not
\* while the tick's time is still inside the firing window.
C5_NoRedispatchAfterSent ==
    [][\A r \in DOMAIN reminders : reminders[r].sent =>
          \A w \in procs : tick'[w].tried # Append(tick[w].tried, r)]_vars

\* A later tick inside the window of an instance that is marked sent passes over it
C5_Witness ==
    /\ tick[1].no >= 2
    /\ ev[1].res = "skip_sent"
    /\ ev[1].rtype \in DOMAIN LeadMinutes
    /\ Abs(ev[1].tu - LeadMinutes[ev[1].rtype]) <= ToleranceMinutes
    /\ ev[1].rid \in DOMAIN reminders /\ reminders[ev[1].rid].sent

\* C6: for every class of the catalog an unsent reminder is evaluated as due exactly when
\* |(target - now) - lead| <= 5 minutes.
C6_DueIffWithinTolerance ==
    \A w \in procs :
        ev[w].rid # 0 /\ ev[w].act # "skip_sent" /\ ev[w].rtype \in DOMAIN LeadMinutes =>
            (ev[w].act = "send" <=>
                Abs(ev[w].tu - LeadMinutes[ev[w].rtype]) <= ToleranceMinutes)

\* A reminder evaluated as due at a distance of exactly the tolerance
C6_Witness ==
    /\ ev[1].act = "send"
    /\ ev[1].rtype \in DOMAIN LeadMinutes
    /\ ev[1].tu - LeadMinutes[ev[1].rtype] = ToleranceMinutes

\* A reminder evaluated as not due at a distance of the tolerance plus one
C6_JustOutside ==
    /\ ev[1].act = "not_due"
    /\ ev[1].rtype \in DOMAIN LeadMinutes
    /\ Abs(ev[1].tu - LeadMinutes[ev[1].rtype]) = ToleranceMinutes + 1

\* C7: a reminder whose deadline time is past at the tick is not evaluated as due and no
\* provider is asked for it, for any class of the catalog.
C7_PastNeverDue ==
    \A w \in procs :
        ev[w].rid # 0 /\ ev[w].tu < 0 /\ ev[w].rtype \in DOMAIN LeadMinutes =>
            /\ ev[w].act # "send"
            /\ ev[w].res \notin Dispatched
            /\ ev[w].outcomes = <<>>

\* A reminder of a catalog class evaluated after its deadline time
C7_Witness ==
    /\ ev[1].rid # 0 /\ ev[1].tu < 0
    /\ ev[1].rtype \in DOMAIN LeadMinutes
    /\ ev[1].act = "not_due"

\* C8: a reminder whose class is not in the catalog is rejected with a configuration
\* error when it is evaluated, not passed over.
C8_UnknownClassRejected ==
    \A w \in procs :
        ev[w].rid # 0 /\ ev[w].act # "skip_sent" /\ ev[w].rtype \notin DOMAIN LeadMinutes =>
            ev[w].res = "config_error"

\* C9: in a tick that found no channel enabled for the owner, no provider is asked for
\* the owner's reminders and none of them is marked sent (a reminder is only ever marked
\* after a provider accepted it); send_deadline_reminder asked for no channel returns no
\* result.
C9_ZeroChannelsNoDispatch ==
    /\ \A w \in procs :
          ev[w].res \in Dispatched =>
              /\ tick[w].seen # None
              /\ ev[w].user \in DOMAIN tick[w].seen[1]
              /\ EnabledChannels(tick[w].seen[1][ev[w].user]) # {}
    /\ \A r \in DOMAIN reminders :
          reminders[r].sent => stat[r].accepted >= 1
    /\ \A user_phone \in Phones, delivered \in [NotificationType -> BOOLEAN] :
          send_deadline_reminder(user_phone, Some({}), delivered) = <<>>

\* A tick that ran to its end while an unsent reminder of an owner without any enabled
\* channel was inside its window, and asked no provider
C9_Witness ==
    /\ pc[1] = "sleep" /\ tick[1].last = "done" /\ tick[1].no >= 1
    /\ tick[1].seen # None
    /\ tick[1].tried = <<>>
    /\ \E r \in DOMAIN reminders :
          LET d == reminders[r].deadline_id IN
          /\ d \in DOMAIN deadlines
          /\ deadlines[d].user_id \in DOMAIN tick[1].seen[1]
          /\ EnabledChannels(tick[1].seen[1][deadlines[d].user_id]) = {}
          /\ deadlines[d].deadline_date # None
          /\ reminder_action(reminders[r], deadlines[d].deadline_date[1], started[1]) = "send"
          /\ stat[r] = NoStat

\* C10: when exactly one of the two enabled channels of a due instance succeeds, the
\* instance is marked sent and both outcomes are recorded, one success and one failure.
C10_BothOutcomes ==
    \A w \in procs :
        /\ ev[w].act = "send"
        /\ ev[w].chans = {"email", "sms"}
        /\ ev[w].ans # None
        /\ Cardinality({c \in ev[w].chans : send_email(ev[w].ans[1][c])}) = 1
        /\ ev[w].ans[1].email # "ConnectionError"
        => /\ ev[w].res = "marked"
           /\ Len(ev[w].outcomes) = 2
           /\ \E i, j \in 1..Len(ev[w].outcomes) :
                  ev[w].outcomes[i].ok /\ ~ev[w].outcomes[j].ok

\* C11: in every state a reminder instance has sent_at = null exactly while its sent flag
\* is false (marking an instance sets sent_at in the same update).
C11_SentAtIffSent ==
    \A r \in DOMAIN reminders :
        (reminders[r].sent_at = None) <=> ~reminders[r].sent

\* C12: no due reminder falls between two consecutive ticks: a reminder that one tick
\* evaluated before its window (more than 5 minutes before the lead point) is not found
\* behind its window (more than 5 minutes after the lead point) by the next tick.
C12_NoGapBetweenTicks ==
    \A w \in procs :
        /\ ev[w].act = "not_due"
        /\ ev[w].rtype \in DOMAIN LeadMinutes
        /\ ev[w].tu < LeadMinutes[ev[w].rtype] - ToleranceMinutes
        => ev[w].rid \notin tick[w].prevEarly

\* C13: a reminder whose dispatch failed in the previous tick is dispatched again by this
\* tick as long as the deadline time has not passed, and an instance that is evaluated
\* unsent after its deadline time is reported.
C13_RetriedUntilDue ==
    \A w \in procs :
        /\ ev[w].rid \in tick[w].prevFailed /\ ev[w].act # "skip_sent" /\ ev[w].tu >= 0
              => ev[w].act = "send"
        /\ ev[w].rid # 0 /\ ev[w].act # "skip_sent" /\ ev[w].tu < 0
              => ev[w].res = "reported"

\* The positions of a process that is running main
Alive == {"sleep", "settings", "user", "deadline", "reminder"}

\* C14 as stated: for the 1_hour reminder of a deadline 50 minutes after the first tick,
\* once the deadline time has passed the instance is unsent, exactly three failed send
\* attempts were made, and the loop is running.
C14_ThreeFailedAttempts ==
    \A r \in DOMAIN reminders :
        LET d == reminders[r].deadline_id IN
        d \in DOMAIN deadlines /\ deadlines[d].deadline_date # None
            /\ clock > deadlines[d].deadline_date[1]
        => /\ ~reminders[r].sent
           /\ stat[r].rejected = 3
           /\ \A w \in procs : pc[w] \in Alive

\* C14: the 1_hour reminder of a deadline 50 minutes after the first tick is never
\* evaluated as due: in every state, also after the deadline time, the instance is
\* unsent, no send attempt was made for it, and the loop is running.
C14_NeverDueNoAttempts ==
    /\ \A r \in DOMAIN reminders : ~reminders[r].sent /\ stat[r] = NoStat
    /\ \A w \in procs : /\ pc[w] \in Alive
                        /\ tick[w].tried = <<>>
                        /\ ev[w].act \in {"", "not_due"}

\* The deadline time has passed, at least three ticks have evaluated the reminder
C14_Witness ==
    /\ clock > 50
    /\ tick[1].no > 3
    /\ ev[1].rid = 1 /\ ev[1].rtype = "1_hour" /\ ev[1].tu < 0 /\ ev[1].act = "not_due"
    /\ ~reminders[1].sent

\* C15: a dispatch that fails, by a failure answer or by an exception of the provider
\* call, leaves a failed outcome and does not end the tick: the loop goes on with the
\* reminders and users that remain.
C15_DispatchFailureContained ==
    /\ [](\A w \in procs :
            ev[w].res \in {"failed", "send_raised"} =>
                Len(ev[w].outcomes) = 1 /\ ~ev[w].outcomes[1].ok)
    /\ [][\A w \in procs :
            ev'[w] # ev[w] /\ ev'[w].res \in {"failed", "send_raised"} =>
                pc'[w] \in {"reminder", "deadline"}]_vars

\* The channels a call asks that have a recipient: sms and whatsapp need a user_phone
Asked(call) ==
    LET types == IF call.notification_types = None THEN {"email"}
                 ELSE call.notification_types[1]
    IN {c \in types : c \in {"sms", "whatsapp"} => call.user_phone # None}

\* The credentials of a channel are present
HasCredentials(config, c) ==
    CASE c = "email"    -> config.sendgrid_api_key
      [] c = "sms"      -> config.twilio_client /\ config.sms_from
      [] c = "whatsapp" -> config.twilio_client /\ config.whatsapp_from
      [] c = "push"     -> TRUE

\* C16: whatever credentials are missing, send_deadline_reminder returns one result for
\* every channel it was asked for (and has a recipient for); the result of a channel
\* without credentials is a failure, and the result of every other channel is what its
\* provider answered.
C16_MissingCredentialsContained ==
    svc.called =>
        /\ {svc.results[i].notification_type : i \in 1..Len(svc.results)} = Asked(svc)
        /\ Len(svc.results) = Cardinality(Asked(svc))
        /\ \A i \in 1..Len(svc.results) :
              LET c == svc.results[i].notification_type IN
              /\ ~HasCredentials(svc.config[1], c) => ~svc.results[i].success
              /\ HasCredentials(svc.config[1], c) =>
                    (svc.results[i].success <=> (c = "push" \/ svc.accepted[1][c]))

\* A call for e-mail and SMS without a SendGrid key: the e-mail failed, the SMS was sent
C16_Witness ==
    /\ svc.called
    /\ svc.notification_types = Some({"email", "sms"})
    /\ ~svc.config[1].sendgrid_api_key
    /\ svc.results = <<[notification_type |-> "email", success |-> FALSE],
                       [notification_type |-> "sms", success |-> TRUE]>>

\* C17 as stated: when a tick was ended by the store being unreachable, the sent flag of
\* every reminder instance is what it was when the tick started.
C17_NoWriteBeforeAbort ==
    \A w \in procs :
        tick[w].last = "store_error" =>
            \A r \in DOMAIN reminders :
                reminders[r].sent <=> r \in tick[w].sentAtStart

\* C17: when a tick was ended by the store being unreachable, the process is back in
\* main's sleep, and the only sent flags that differ from the start of the tick are
\* those of reminders the tick handled before that point and whose send was accepted.
C17_AbortKeepsEarlierMarks ==
    \A w \in procs :
        tick[w].last = "store_error" =>
            /\ pc[w] = "sleep"
            /\ \A r \in DOMAIN reminders :
                  /\ r \in tick[w].sentAtStart => reminders[r].sent
                  /\ reminders[r].sent /\ r \notin tick[w].sentAtStart =>
                        r \in Range(tick[w].tried) /\ stat[r].accepted >= 1

\* A tick that marked a reminder and was then ended by the store, with another user's
\* due reminder left unhandled
C17_Witness ==
    /\ tick[1].last = "store_error"
    /\ \E r \in DOMAIN reminders : reminders[r].sent /\ r \notin tick[1].sentAtStart
    /\ \E r \in DOMAIN reminders : ~reminders[r].sent /\ r \notin tick[1].visited

\* C18 as stated: the row persisted for a user who had none has e-mail enabled, the
\* user's e-mail address, and SMS, WhatsApp and push disabled.
C18_DefaultOnlyEmail ==
    [][DEFAULT_USER_ID \notin DOMAIN settings /\ DEFAULT_USER_ID \in DOMAIN settings' =>
          LET row == settings'[DEFAULT_USER_ID] IN
          /\ row.email_enabled
          /\ row.email = users[DEFAULT_USER_ID].email
          /\ ~row.sms_enabled /\ ~row.whatsapp_enabled /\ ~row.push_enabled]_vars

\* C18: the row persisted for a user who had none, which is also the row the request
\* answers with, has e-mail and push enabled, the user's e-mail address, SMS and
\* WhatsApp disabled, and no phone or WhatsApp number.
C18_DefaultEmailAndPush ==
    [][DEFAULT_USER_ID \notin DOMAIN settings /\ DEFAULT_USER_ID \in DOMAIN settings' =>
          LET row == settings'[DEFAULT_USER_ID] IN
          /\ row.email_enabled /\ row.push_enabled
          /\ row.email = users[DEFAULT_USER_ID].email
          /\ ~row.sms_enabled /\ ~row.whatsapp_enabled
          /\ row.phone_number = None /\ row.whatsapp_number = None
          /\ \E q \in Requests : /\ req[q].pc = "insert"
                                  /\ req'[q].pc = "reminders"
                                  /\ req'[q].row = Some(row)]_vars

\* A request that found no row, inserted the default and answered with it
C18_Witness ==
    \E q \in Requests :
        /\ req[q].pc = "done" /\ req[q].status = 200
        /\ req[q].user_email = Some(users[DEFAULT_USER_ID].email)
        /\ DEFAULT_USER_ID \in DOMAIN settings
        /\ req[q].row = Some(settings[DEFAULT_USER_ID])

\* C19: every finished call of get_notification_settings has answered 200 and the user
\* has a settings row (one row: notification_settings.user_id is unique).
C19_MaterializationIdempotent ==
    \A q \in Requests :
        req[q].pc = "done" => /\ req[q].status = 200
                              /\ DEFAULT_USER_ID \in DOMAIN settings

\* C20: a process starts a tick only from main's sleep, that is when its previous tick
\* has returned, and not sooner than SleepMinutes after that return; a process inside a
\* tick started it that long after the return of the tick before.
C20_TicksNeverOverlap ==
    /\ [](\A w \in procs :
            pc[w] \notin {"sleep", "off"} /\ tick[w].no >= 2 =>
                started[w] >= tick[w].ended + SleepMinutes)
    /\ [][\A w \in procs :
            tick'[w].no # tick[w].no =>
                /\ pc[w] = "sleep"
                /\ tick'[w].no = tick[w].no + 1
                /\ tick[w].no >= 1 => clock >= tick[w].ended + SleepMinutes]_vars

\* A second tick under way, after a first tick that ran longer than the interval
C20_Witness ==
    /\ tick[1].no = 2
    /\ pc[1] \notin {"sleep", "off"}
    /\ tick[1].ended > SleepMinutes
    /\ started[1] >= tick[1].ended + SleepMinutes

\* The channels a call is made for: notification_types, [EMAIL] when it is None
Enabled(call) ==
    IF call.notification_types = None THEN {"email"} ELSE call.notification_types[1]

\* C21: a call of send_deadline_reminder returns exactly one result for every channel it
\* was made for, whatever the results are and whether or not the user has a phone number.
C21_OneOutcomePerChannel ==
    svc.called =>
        /\ {svc.results[i].notification_type : i \in 1..Len(svc.results)} = Enabled(svc)
        /\ Len(svc.results) = Cardinality(Enabled(svc))

\* The reminder instances of a deadline
Instances(rems, d) == {r \in DOMAIN rems : rems[r].deadline_id = d}

\* C22: when the reminders of a created deadline are scheduled, the deadline gets one
\* unsent instance for every lead-time class its owner has a preference for and none for
\* any other class; and no two instances ever share a deadline and a class.
C22_OneInstancePerConfiguredClass ==
    /\ [](\A r1, r2 \in DOMAIN reminders :
            /\ reminders[r1].deadline_id = reminders[r2].deadline_id
            /\ reminders[r1].reminder_type = reminders[r2].reminder_type
            => r1 = r2)
    /\ [][\A d \in bg :
            d \notin bg' /\ d \in DOMAIN deadlines =>
                LET inst == Instances(reminders', d)
                    want == configured(rconf, deadlines[d].user_id)
                IN /\ {reminders'[r].reminder_type : r \in inst} = want
                   /\ Cardinality(inst) = Cardinality(want)
                   /\ \A r \in inst : ~reminders'[r].sent]_vars

\* The duration string the statement asks for when t seconds remain
DurationString(t) ==
    IF t >= 86400 THEN <<"in", t \div 86400, IF t \div 86400 = 1 THEN "day" ELSE "days">>
    ELSE IF t >= 3600
         THEN <<"in", t \div 3600, IF t \div 3600 = 1 THEN "hour" ELSE "hours">>
         ELSE <<"soon">>

\* C23: for a deadline that is not past, every message of a call carries the same
\* duration string, 'in N day(s)' from one full day on, 'in N hour(s)' from one hour on,
\* 'soon' below one hour; the priority in upper case; and a link only when the call was
\* given one.
C23_DurationPriorityLink ==
    svc.called /\ svc.time_until >= 0 =>
        \A i \in 1..Len(svc.messages) :
            /\ svc.messages[i].due = DurationString(svc.time_until)
            /\ svc.messages[i].priority \in {"LOW", "MEDIUM", "HIGH", "URGENT"}
            /\ svc.messages[i].link # None => svc.deadline_url # None

\* C30: for a deadline whose time is now or past, every message of a call says 'soon'.
C30_PastIsSoon ==
    svc.called /\ svc.time_until <= 0 =>
        \A i \in 1..Len(svc.messages) : svc.messages[i].due = <<"soon">>

\* C27: the reminder preferences never hold two rows for the same user and
\* reminder_time, and a call of create_notification_reminder that found a row for its
\* reminder_time adds no row and leaves every row's user and reminder_time, and every
\* other row, as they were.
C27_OneRowPerReminderTime ==
    /\ [](\A i, j \in 1..Len(rconf) :
            /\ rconf[i].user_id = rconf[j].user_id
            /\ rconf[i].reminder_time = rconf[j].reminder_time
            => i = j)
    /\ [][\A p \in Posts :
            post[p].pc = "update" /\ post'[p].pc = "done" =>
                /\ Len(rconf') = Len(rconf)
                /\ \A i \in 1..Len(rconf) :
                      /\ rconf'[i].user_id = rconf[i].user_id
                      /\ rconf'[i].reminder_time = rconf[i].reminder_time
                      /\ rconf[i].reminder_time # post[p].data[1]["reminder_time"] =>
                            rconf'[i] = rconf[i]]_vars

\* The fields of a deadline that are not audit fields
Content(row) == <<row.title, row.description, row.due_date, row.priority, row.status>>

\* C28: no step changes the title, description, due date, priority or status of a
\* deadline whose status is completed.
C28_CompletedImmutable ==
    [][\A d \in DOMAIN deadlines :
          deadlines[d].status = "completed" /\ d \in DOMAIN deadlines' =>
              Content(deadlines'[d]) = Content(deadlines[d])]_vars

\* C29: no step of a tick asks the provider to send a reminder of a deadline whose
\* status was completed when the tick started.
C29_OnlyPendingDispatched ==
    [][\A w \in procs :
          ev'[w] # ev[w] /\ ev'[w].res \in Dispatched =>
              cur[w].deadline_id \notin tick[w].completedAtStart]_vars

\* C24: a process blocked in a request to the store or the provider gets out of it: its
\* tick completes and main is back in its sleep.
C24_StalledCallTimesOut ==
    \A w \in Workers : [](pc[w] = "stalled" => <>(pc[w] = "sleep"))

\* The ways a tick ends through the except clause
Raised == {"error", "store_error"}

\* C25: a tick that ended with an exception leaves the process in main's sleep, and,
\* when the sleep ends within the horizon, the next tick starts.
C25_LoopSurvivesExceptions ==
    /\ [](\A w \in procs : tick[w].last \in Raised => pc[w] = "sleep")
    /\ \A w \in Workers :
          []((w \in procs /\ tick[w].last \in Raised /\ wake[w] <= MaxClock)
                => <>(tick[w].last = "running" /\ tick[w].prevLast \in Raised))

\* A tick under way after a tick that an exception ended
C25_Witness ==
    /\ tick[1].no >= 2
    /\ tick[1].last = "running"
    /\ tick[1].prevLast \in Raised
    /\ started[1] >= tick[1].ended + SleepMinutes

\* The 1_day reminders of the deadlines that create_deadline stored with a due date more
\* than a day ahead
CreatedDayReminders ==
    {r \in DOMAIN reminders :
        /\ reminders[r].reminder_type = "1_day"
        /\ reminders[r].deadline_id \in DOMAIN deadlines \ InitDids
        /\ deadlines[reminders[r].deadline_id].due_date > time_map["1_day"]}

====
